---- MODULE Spec2Model ----
(***************************************************************************)
(* Model of the MediVue task API (app/schemas.py, app/crud.py,             *)
(* app/routers/tasks.py, app/models.py).                                   *)
(*                                                                         *)
(* Storage is the three tables of app/models.py: tasks (a sequence of      *)
(* rows, the id of a row being its position), tags (a sequence of names,   *)
(* the id of a tag being its position) and the join table task_tags (a set *)
(* of <<task id, tag id>> pairs, the pair being the primary key).          *)
(* Each request is one action: validation, the crud function, the commit   *)
(* (or the rollback when the store rejects the flush) and the response.    *)
(* SpecRace runs two requests at once, each in its own transaction txn[r], *)
(* one step per statement of get_or_create_tags and one for the commit.    *)
(*                                                                         *)
(* Strings are sequences of one-character strings, so that strip(),        *)
(* lower(), len() and split(",") are computed as Python computes them.     *)
(* An Optional[T] value is the empty set (None) or a singleton {v}.        *)
(***************************************************************************)
EXTENDS Integers, Sequences, FiniteSets, TLC

VARIABLES tasks, tags, task_tags, now, resp, txn

vars == <<tasks, tags, task_tags, now, resp, txn>>

(***************************************************************************)
(* Bounds of the model.                                                    *)
(***************************************************************************)
MaxTasks == 2
MaxFieldTasks == 1
MaxClock == 1
MaxTagList == 2
MaxBodyFields == 2

(***************************************************************************)
(* Program constants.                                                      *)
(***************************************************************************)
MinTitleLen == 1
MaxTitleLen == 200
MinPriority == 1
MaxPriority == 5
DefaultPriority == 3
MinLimit == 1
MaxLimit == 100
Today == 1

None == {}
Some(v) == {v}
Val(o) == CHOOSE v \in o : TRUE

(***************************************************************************)
(* Python string operations.                                               *)
(***************************************************************************)
Whitespace == {" "}

LowerChar(c) ==
    CASE c = "W" -> "w"
      [] c = "U" -> "u"
      [] c = "B" -> "b"
      [] OTHER -> c

lower(s) == [i \in 1..Len(s) |-> LowerChar(s[i])]

RECURSIVE lstrip(_)
lstrip(s) ==
    IF s = <<>> THEN <<>>
    ELSE IF Head(s) \in Whitespace THEN lstrip(Tail(s)) ELSE s

RECURSIVE rstrip(_)
rstrip(s) ==
    IF s = <<>> THEN <<>>
    ELSE IF s[Len(s)] \in Whitespace THEN rstrip(SubSeq(s, 1, Len(s) - 1)) ELSE s

strip(s) == rstrip(lstrip(s))

\* s.split(","): the pieces of s between commas, empty pieces included.
RECURSIVE split(_, _)
split(s, cur) ==
    IF s = <<>> THEN <<cur>>
    ELSE IF Head(s) = "," THEN <<cur>> \o split(Tail(s), <<>>)
    ELSE split(Tail(s), Append(cur, Head(s)))

Range(s) == {s[i] : i \in 1..Len(s)}

HasDuplicates(s) == \E i, j \in 1..Len(s) : i # j /\ s[i] = s[j]

(***************************************************************************)
(* app/schemas.py: the request bodies.  A body is a record holding the set *)
(* of fields the request named (pydantic's model_fields_set) and one       *)
(* Optional value per field; a field the request did not name holds None.  *)
(***************************************************************************)
TitleOk(t) ==
    \/ t = None
    \/ /\ Len(Val(t)) >= MinTitleLen
       /\ Len(Val(t)) <= MaxTitleLen
       /\ strip(Val(t)) # <<>>

PriorityOk(p) == p = None \/ (Val(p) >= MinPriority /\ Val(p) <= MaxPriority)

DueDateOk(d) == d = None \/ ~(Val(d) < Today)

\* TaskCreate: title is required and not null, priority is an int (never
\* null), description, due_date and tags are Optional.
TaskCreate_valid(b) ==
    /\ "title" \in b.fields_set /\ b.title # None /\ TitleOk(b.title)
    /\ "priority" \in b.fields_set => (b.priority # None /\ PriorityOk(b.priority))
    /\ DueDateOk(b.due_date)

\* The validated TaskCreate object: the title stripped, the defaults filled in.
TaskCreate(b) ==
    [title |-> Some(strip(Val(b.title))),
     description |-> b.description,
     priority |-> IF "priority" \in b.fields_set THEN b.priority ELSE Some(DefaultPriority),
     due_date |-> b.due_date,
     tags |-> IF "tags" \in b.fields_set THEN b.tags ELSE Some(<<>>)]

\* TaskUpdate: every field Optional, None accepted for each of them.
TaskUpdate_valid(b) ==
    /\ TitleOk(b.title)
    /\ PriorityOk(b.priority)
    /\ DueDateOk(b.due_date)

\* The validated TaskUpdate object: only the declared fields are kept (a field
\* the model does not declare, such as deleted, is ignored), and a title that
\* is not None is stripped.
UpdateFields == {"title", "description", "priority", "due_date", "completed", "tags"}

TaskUpdate(b) ==
    [fields_set |-> b.fields_set \cap UpdateFields,
     title |-> IF b.title = None THEN None ELSE Some(strip(Val(b.title))),
     description |-> b.description,
     priority |-> b.priority,
     due_date |-> b.due_date,
     completed |-> b.completed,
     tags |-> b.tags]

(***************************************************************************)
(* app/models.py: what the store enforces when a flush reaches it.         *)
(***************************************************************************)
\* nullable=False on title, priority, completed.
NotNullOk(row) == row.title # None /\ row.priority # None /\ row.completed # None

\* task_tags has the primary key (task_id, tag_id): the flush inserts one row
\* per element of the list of added tags, and two equal rows are rejected.
AssociationInsertOk(added) == ~HasDuplicates(added)

(***************************************************************************)
(* app/crud.py                                                             *)
(***************************************************************************)
\* The session of a request whose flush the store rejects is closed without a
\* commit: the response is the generic server error and nothing it flushed
\* (new tag rows included) is kept.
rollback(id) ==
    [status |-> 500, id |-> id, tasks |-> tasks, tags |-> tags, task_tags |-> task_tags]

TagIdByName_none(tbl, name) == 0

\* Tag.name == name, first(): the id of the tag row with that name, 0 if none.
TagIdByName(tbl, name) ==
    IF \E g \in 1..Len(tbl) : tbl[g] = name
    THEN CHOOSE g \in 1..Len(tbl) : tbl[g] = name
    ELSE 0

normalize(name) == lower(strip(name))

\* get_or_create_tags: [tags |-> the tag table after the flushes,
\*                      ids  |-> the list of Tag objects returned (their ids)].
RECURSIVE get_or_create_tags(_, _)
get_or_create_tags(tbl, tag_names) ==
    IF tag_names = <<>> THEN [tags |-> tbl, ids |-> <<>>]
    ELSE LET name == normalize(Head(tag_names)) IN
         IF name = <<>> THEN get_or_create_tags(tbl, Tail(tag_names))
         ELSE LET found == TagIdByName(tbl, name)
                  tbl2 == IF found = 0 THEN Append(tbl, name) ELSE tbl
                  id == IF found = 0 THEN Len(tbl) + 1 ELSE found
                  rest == get_or_create_tags(tbl2, Tail(tag_names))
              IN  [tags |-> rest.tags, ids |-> <<id>> \o rest.ids]

\* task.tags: the ids of the tags associated with the task.
TagsOf(assoc, id) == {p[2] : p \in {q \in assoc : q[1] = id}}

\* create_task: the response status and the store after the request.
create_task(data) ==
    LET r == IF data.tags # None /\ Val(data.tags) # <<>>
             THEN get_or_create_tags(tags, Val(data.tags))
             ELSE [tags |-> tags, ids |-> <<>>]
        id == Len(tasks) + 1
        row == [title |-> data.title,
                description |-> data.description,
                priority |-> data.priority,
                due_date |-> data.due_date,
                completed |-> Some(FALSE),
                deleted |-> FALSE,
                created_at |-> now,
                updated_at |-> now]
    IN  IF NotNullOk(row) /\ AssociationInsertOk(r.ids)
        THEN [status |-> 201, id |-> id,
              tasks |-> Append(tasks, row),
              tags |-> r.tags,
              task_tags |-> task_tags \cup {<<id, r.ids[i]>> : i \in 1..Len(r.ids)}]
        ELSE rollback(0)

get_task_any(task_id) == IF task_id \in 1..Len(tasks) THEN task_id ELSE 0

\* get_task: the id when a row with that id exists and is not deleted, else 0.
get_task(task_id) ==
    IF task_id \in 1..Len(tasks) /\ tasks[task_id].deleted = FALSE THEN task_id ELSE 0

\* update_data = data.model_dump(exclude_unset=True), without "tags".
ColumnFields == {"title", "description", "priority", "due_date", "completed"}

SetColumns_unset_too(row, data) ==
    [f \in DOMAIN row |->
        IF f \in {"description", "due_date"} \/ (f \in ColumnFields /\ f \in data.fields_set)
        THEN data[f] ELSE row[f]]

SetColumns(row, data) ==
    [f \in DOMAIN row |->
        IF f \in ColumnFields /\ f \in data.fields_set THEN data[f] ELSE row[f]]

update_task_commits_tags(task_id, data) ==
    LET hasTags == "tags" \in data.fields_set
        tag_names == IF data.tags = None THEN <<>> ELSE Val(data.tags)
        r == IF hasTags THEN get_or_create_tags(tags, tag_names)
             ELSE [tags |-> tags, ids |-> <<>>]
        before == TagsOf(task_tags, task_id)
        added == IF hasTags THEN SelectSeq(r.ids, LAMBDA g : g \notin before) ELSE <<>>
        removed == IF hasTags THEN before \ Range(r.ids) ELSE {}
        set == SetColumns(tasks[task_id], data)
        row == IF set # tasks[task_id] THEN [set EXCEPT !.updated_at = now] ELSE set
    IN  IF NotNullOk(row) /\ AssociationInsertOk(added)
        THEN [status |-> 200, id |-> task_id,
              tasks |-> [tasks EXCEPT ![task_id] = row],
              tags |-> r.tags,
              task_tags |-> (task_tags \ {<<task_id, g>> : g \in removed})
                               \cup {<<task_id, added[i]>> : i \in 1..Len(added)}]
        ELSE [rollback(task_id) EXCEPT !.tags = r.tags]

\* update_task on the task get_task returned.
update_task(task_id, data) ==
    LET old == tasks[task_id]
        hasTags == "tags" \in data.fields_set
        tag_names == IF data.tags = None THEN <<>> ELSE Val(data.tags)
        r == IF hasTags THEN get_or_create_tags(tags, tag_names)
             ELSE [tags |-> tags, ids |-> <<>>]
        before == TagsOf(task_tags, task_id)
        added == IF hasTags THEN SelectSeq(r.ids, LAMBDA g : g \notin before) ELSE <<>>
        removed == IF hasTags THEN before \ Range(r.ids) ELSE {}
        set == SetColumns(old, data)
        \* the UPDATE is emitted only when a column has a new value, and it is
        \* the UPDATE that fires onupdate=datetime.utcnow
        row == IF set # old THEN [set EXCEPT !.updated_at = now] ELSE old
    IN  IF NotNullOk(row) /\ AssociationInsertOk(added)
        THEN [status |-> 200, id |-> task_id,
              tasks |-> [tasks EXCEPT ![task_id] = row],
              tags |-> r.tags,
              task_tags |-> (task_tags \ {<<task_id, g>> : g \in removed})
                               \cup {<<task_id, added[i]>> : i \in 1..Len(added)}]
        ELSE rollback(task_id)

delete_task_cascade(task_id) ==
    [status |-> 204, id |-> task_id,
     tasks |-> [tasks EXCEPT ![task_id] = [@ EXCEPT !.deleted = TRUE, !.updated_at = now]],
     tags |-> tags, task_tags |-> {p \in task_tags : p[1] # task_id}]

\* delete_task on the task get_task returned: the soft delete.
delete_task(task_id) ==
    [status |-> 204, id |-> task_id,
     tasks |-> [tasks EXCEPT ![task_id] = [@ EXCEPT !.deleted = TRUE, !.updated_at = now]],
     tags |-> tags, task_tags |-> task_tags]

\* The rows of a query over Task are <<task id, tag id>> pairs: the tag id is
\* the joined tag row (0 before the join), which the selected columns do not
\* show but which makes two rows of the same task two rows.
BaseQuery == {<<t, 0>> : t \in {u \in 1..Len(tasks) : tasks[u].deleted = FALSE}}

\* JOIN task_tags, tags: one row per association of a selected task.
join_tags(rows) == {p \in task_tags : \E r \in rows : r[1] = p[1]}

no_distinct(rows) == rows

\* DISTINCT over the selected (task) columns.
distinct(rows) == {<<r[1], 0>> : r \in rows}

\* ORDER BY created_at DESC: every order of the rows that is descending in
\* created_at; the store may return rows of equal created_at in any order.
Orderings(rows) ==
    LET n == Cardinality(rows)
    IN  {[i \in 1..n |-> o[i][1]] :
            o \in {q \in [1..n -> rows] :
                     /\ \A i, j \in 1..n : i # j => q[i] # q[j]
                     /\ \A i, j \in 1..n :
                          i < j => tasks[q[i][1]].created_at >= tasks[q[j][1]].created_at}}

\* OFFSET offset LIMIT limit.
Page(o, offset, limit) ==
    IF offset >= Len(o) THEN <<>>
    ELSE SubSeq(o, offset + 1, IF offset + limit < Len(o) THEN offset + limit ELSE Len(o))

\* The rows get_tasks selects, before count() and the page.
get_tasks_query(completed, priority, tag_list) ==
    LET q0 == BaseQuery
        q1 == IF completed # None
              THEN {r \in q0 : tasks[r[1]].completed = completed} ELSE q0
        q2 == IF priority # None
              THEN {r \in q1 : tasks[r[1]].priority = priority} ELSE q1
        names == IF tag_list = None THEN <<>> ELSE Val(tag_list)
        normalized == {normalize(names[i]) : i \in {j \in 1..Len(names) : strip(names[j]) # <<>>}}
    IN  IF names # <<>> /\ normalized # {}
        THEN distinct({r \in join_tags(q2) : tags[r[2]] \in normalized})
        ELSE q2

\* get_tasks: the set of (total, tasks) results the store may answer with.
get_tasks(completed, priority, tag_list, limit, offset) ==
    LET query == get_tasks_query(completed, priority, tag_list)
    IN  {[total |-> Cardinality(query), tasks |-> Page(o, offset, limit)] :
            o \in Orderings(query)}

(***************************************************************************)
(* app/routers/tasks.py: each route gives the response status and the      *)
(* store after the request.                                                *)
(***************************************************************************)
Unchanged(status, id) ==
    [status |-> status, id |-> id, tasks |-> tasks, tags |-> tags, task_tags |-> task_tags]

\* POST /tasks: the body is validated (422) before create_task runs.
post_tasks(body) ==
    IF TaskCreate_valid(body) THEN create_task(TaskCreate(body)) ELSE Unchanged(422, 0)

tag_list_unsplit(csv) ==
    IF csv = None \/ Val(csv) = <<>> THEN None
    ELSE IF strip(Val(csv)) = <<>> THEN Some(<<>>) ELSE Some(<<strip(Val(csv))>>)

\* tag_list = [t.strip() for t in tags.split(",") if t.strip()] if tags else None
tag_list_of(csv) ==
    IF csv = None \/ Val(csv) = <<>> THEN None
    ELSE LET parts == split(Val(csv), <<>>)
             kept == SelectSeq(parts, LAMBDA t : strip(t) # <<>>)
         IN  Some([i \in 1..Len(kept) |-> strip(kept[i])])

\* The Query(...) constraints of list_tasks.
list_tasks_valid(p) ==
    /\ PriorityOk(p.priority)
    /\ p.limit >= MinLimit /\ p.limit <= MaxLimit
    /\ p.offset >= 0

\* GET /tasks: the set of responses the store may give to the query p.
list_tasks(p) ==
    IF list_tasks_valid(p)
    THEN {[status |-> 200, total |-> r.total, tasks |-> r.tasks] :
             r \in get_tasks(p.completed, p.priority, tag_list_of(p.tags), p.limit, p.offset)}
    ELSE {[status |-> 422, total |-> 0, tasks |-> <<>>]}

\* GET /tasks/{task_id}
get_task_route(task_id) == IF get_task(task_id) = 0 THEN 404 ELSE 200

patch_task_any(task_id, body) ==
    IF ~TaskUpdate_valid(body) THEN Unchanged(422, task_id)
    ELSE IF task_id \notin 1..Len(tasks) THEN Unchanged(404, task_id)
    ELSE update_task(task_id, TaskUpdate(body))

\* PATCH /tasks/{task_id}: the body is validated (422) before the handler runs.
patch_task(task_id, body) ==
    IF ~TaskUpdate_valid(body) THEN Unchanged(422, task_id)
    ELSE IF get_task(task_id) = 0 THEN Unchanged(404, task_id)
    ELSE update_task(task_id, TaskUpdate(body))

\* DELETE /tasks/{task_id}
delete_task_route(task_id) ==
    IF get_task(task_id) = 0 THEN Unchanged(404, task_id) ELSE delete_task(task_id)

(***************************************************************************)
(* The requests the environment sends.  A body names a set of fields and   *)
(* gives each named field a value of its environment (null included).      *)
(***************************************************************************)
Opt(S) == {None} \cup {Some(v) : v \in S}

ValuesOf(f, S, env) == IF f \in S THEN env[f] ELSE {None}

BodiesNaming(S, env) ==
    [fields_set : {S},
     title : ValuesOf("title", S, env),
     description : ValuesOf("description", S, env),
     priority : ValuesOf("priority", S, env),
     due_date : ValuesOf("due_date", S, env),
     completed : ValuesOf("completed", S, env),
     deleted : ValuesOf("deleted", S, env),
     tags : ValuesOf("tags", S, env)]

Bodies(fieldSets, env) == UNION {BodiesNaming(S, env) : S \in fieldSets}

TagLists(names) == UNION {[1..n -> names] : n \in 0..MaxTagList}

UpTo(fields, n) == {T \in SUBSET fields : Cardinality(T) <= n}

Query(completed, priority, csv, limit, offset) ==
    [completed |-> completed, priority |-> priority, tags |-> csv,
     limit |-> limit, offset |-> offset]

NoQuery == Query(None, None, None, 0, 0)

\* Spec: tasks that differ in priority, completed, deleted and tags; all
\* requests arrive within one tick of the clock.
TagNameIn == {<<"w">>, <<" ", "W">>, <<"u">>, <<" ">>}

Env ==
    [title |-> {Some(<<"a">>)},
     description |-> {None},
     priority |-> Opt({MaxPriority}),
     due_date |-> {None},
     completed |-> Opt(BOOLEAN),
     deleted |-> {None},
     tags |-> Opt(TagLists(TagNameIn))]

CreateBodies == Bodies({{"title"} \cup T : T \in SUBSET {"priority", "tags"}}, Env)

UpdateBodies == Bodies(UpTo({"completed", "priority", "tags"}, 1), Env)

ListQueries ==
    {Query(None, None, None, MaxLimit, 0),
     Query(Some(TRUE), None, None, MinLimit, 0),
     Query(None, None, Some(<<"W", ",", "u">>), MaxLimit, 0),
     Query(Some(FALSE), Some(MaxPriority), Some(<<"x", ",", "u">>), MaxLimit, 1),
     Query(None, None, None, MinLimit - 1, 0)}

\* SpecFields: one task, every field of the bodies.
TooLong == [i \in 1..(MaxTitleLen + 1) |-> "x"]

FieldEnv ==
    [title |-> Opt({<<"a">>, <<" ", "b">>, <<" ">>, TooLong}),
     description |-> Opt({<<"d">>}),
     priority |-> Opt({MinPriority - 1, MaxPriority, MaxPriority + 1}),
     due_date |-> Opt({Today - 1, Today}),
     completed |-> Opt(BOOLEAN),
     deleted |-> {Some(TRUE), Some(FALSE)},
     tags |-> Opt({<<>>, <<<<"W">>>>})]

CreateFields == {"title", "description", "priority", "due_date", "tags"}

FieldCreateBodies ==
    Bodies(UpTo(CreateFields, 1) \cup {{"title"} \cup T : T \in UpTo(CreateFields, MaxBodyFields - 1)},
           FieldEnv)

FieldUpdateBodies == Bodies(UpTo(UpdateFields \cup {"deleted"}, MaxBodyFields), FieldEnv)

FieldListQueries == {Query(c, None, None, MaxLimit, 0) : c \in Opt(BOOLEAN)}

\* SpecTime: two tasks and the clock; bodies of at most a completed flag
\* or a tag list.
TimeEnv ==
    [title |-> {Some(<<"a">>)},
     description |-> {None},
     priority |-> {None},
     due_date |-> {None},
     completed |-> {Some(TRUE), Some(FALSE)},
     deleted |-> {None},
     tags |-> {Some(<<>>), Some(<<<<"w">>>>)}]

TimeCreateBodies == Bodies({{"title"}, {"title", "tags"}}, TimeEnv)

TimeUpdateBodies == Bodies(UpTo({"completed", "tags"}, 1), TimeEnv)

TimeListQueries == {Query(None, None, None, 1, 0), Query(None, None, None, 1, 1)}

\* The ids of the requests: those of the rows there can be, and one more.
TaskIds == 1..(MaxTasks + 1)
FieldTaskIds == 1..(MaxFieldTasks + 1)

Response(op, status, id) ==
    [op |-> op, status |-> status, id |-> id, query |-> NoQuery, total |-> 0, tasks |-> <<>>]

Commit(op, r) ==
    /\ tasks' = r.tasks
    /\ tags' = r.tags
    /\ task_tags' = r.task_tags
    /\ resp' = Response(op, r.status, r.id)

\* SpecRace: two requests in flight, each a POST or a PATCH that names a tag
\* list; request r patches task r.
Requests == {1, 2}

RaceEnv ==
    [title |-> {Some(<<"a">>)},
     description |-> {None},
     priority |-> {None},
     due_date |-> {None},
     completed |-> {None},
     deleted |-> {None},
     tags |-> {Some(<<<<"w">>>>), Some(<<<<"w">>, <<" ", "W">>>>), Some(<<<<"u">>>>)}]

RaceCreateBodies == Bodies({{"title", "tags"}}, RaceEnv)

RaceUpdateBodies == Bodies({{"tags"}}, RaceEnv)

\* The transaction of a request: where the request is (pc), the entries of
\* the tag list get_or_create_tags has still to resolve (names), the names of
\* the Tag objects it has collected (resolved), the names its SELECT did not
\* find (absent), the tag rows it has flushed and not committed (pending),
\* and the response (status, id).  rivals records the names it did not find
\* while the other request, still in flight, had not found them either.
Idle ==
    [pc |-> "idle", op |-> "none", task_id |-> 0, body |-> None, names |-> <<>>,
     resolved |-> <<>>, absent |-> {}, pending |-> <<>>, status |-> 0, id |-> 0,
     rivals |-> {}]

(***************************************************************************)
(* The state machine: one action per request.                              *)
(***************************************************************************)
Init ==
    /\ tasks = <<>>
    /\ tags = <<>>
    /\ task_tags = {}
    /\ now = 0
    /\ resp = Response("none", 0, 0)
    /\ txn = [r \in Requests |-> Idle]

\* POST /tasks
CreateTask(bodies, max) ==
    /\ Len(tasks) < max
    /\ \E body \in bodies : Commit("create", post_tasks(body))
    /\ UNCHANGED <<now, txn>>

\* GET /tasks
ListTasks(queries) ==
    /\ \E p \in queries : \E r \in list_tasks(p) :
          resp' = [op |-> "list", status |-> r.status, id |-> 0, query |-> p,
                   total |-> r.total, tasks |-> r.tasks]
    /\ UNCHANGED <<tasks, tags, task_tags, now, txn>>

\* GET /tasks/{task_id}
GetTask(ids) ==
    /\ \E task_id \in ids : resp' = Response("get", get_task_route(task_id), task_id)
    /\ UNCHANGED <<tasks, tags, task_tags, now, txn>>

\* PATCH /tasks/{task_id}
UpdateTask(ids, bodies) ==
    /\ \E task_id \in ids, body \in bodies : Commit("update", patch_task(task_id, body))
    /\ UNCHANGED <<now, txn>>

\* DELETE /tasks/{task_id}
DeleteTask(ids) ==
    /\ \E task_id \in ids : Commit("delete", delete_task_route(task_id))
    /\ UNCHANGED <<now, txn>>

\* Time passes between two requests.
Tick ==
    /\ now < MaxClock
    /\ now' = now + 1
    /\ UNCHANGED <<tasks, tags, task_tags, resp, txn>>

Next ==
    \/ CreateTask(CreateBodies, MaxTasks)
    \/ ListTasks(ListQueries)
    \/ GetTask(TaskIds)
    \/ UpdateTask(TaskIds, UpdateBodies)
    \/ DeleteTask(TaskIds)

Spec == Init /\ [][Next]_vars

NextFields ==
    \/ CreateTask(FieldCreateBodies, MaxFieldTasks)
    \/ ListTasks(FieldListQueries)
    \/ GetTask(FieldTaskIds)
    \/ UpdateTask(FieldTaskIds, FieldUpdateBodies)
    \/ DeleteTask(FieldTaskIds)
    \/ Tick

SpecFields == Init /\ [][NextFields]_vars

NextTime ==
    \/ CreateTask(TimeCreateBodies, MaxTasks)
    \/ ListTasks(TimeListQueries)
    \/ GetTask(TaskIds)
    \/ UpdateTask(TaskIds, TimeUpdateBodies)
    \/ DeleteTask(TaskIds)
    \/ Tick

SpecTime == Init /\ [][NextTime]_vars

(***************************************************************************)
(* SpecRace: the statements of two requests interleave.  A SELECT sees the *)
(* committed rows and the rows its own transaction flushed.  The unique    *)
(* index on tags.name decides an INSERT: a committed row of that name      *)
(* rejects it, a row of that name another transaction has flushed and not  *)
(* yet committed makes it wait for that transaction to end.                *)
(***************************************************************************)
\* The names a SELECT of request r can find.
Visible(r) == Range(tags) \cup Range(txn[r].pending)

\* The loop of get_or_create_tags moves to the next entry of the list, and
\* returns to its caller after the last one.
NextEntry(t) ==
    [t EXCEPT !.names = Tail(@),
              !.pc = IF Tail(t.names) = <<>> THEN "commit" ELSE "select"]

\* The request is answered with a server error: its transaction is rolled
\* back, the rows it flushed are gone.
Failed(t) ==
    [t EXCEPT !.pc = "done", !.status = 500, !.pending = <<>>,
              !.id = IF t.op = "update" THEN t.task_id ELSE 0]

\* The request is between its arrival and its response.
InFlight(q) == txn[q].pc \in {"select", "insert", "commit"}

\* The creates in flight.
Creating == {q \in Requests : txn[q].op = "create" /\ txn[q].pc # "done"}

\* db.commit() of create_task: the tag rows flushed, the task row and one
\* association per Tag object of task.tags.
commit_create(data, pending, resolved) ==
    LET tbl == tags \o pending
        ids == [i \in 1..Len(resolved) |-> TagIdByName(tbl, resolved[i])]
        id == Len(tasks) + 1
        row == [title |-> data.title,
                description |-> data.description,
                priority |-> data.priority,
                due_date |-> data.due_date,
                completed |-> Some(FALSE),
                deleted |-> FALSE,
                created_at |-> now,
                updated_at |-> now]
    IN  IF NotNullOk(row) /\ AssociationInsertOk(ids)
        THEN [status |-> 201, id |-> id,
              tasks |-> Append(tasks, row),
              tags |-> tbl,
              task_tags |-> task_tags \cup {<<id, ids[i]>> : i \in 1..Len(ids)}]
        ELSE rollback(0)

\* task.tags = ..., setattr and db.commit() of update_task.
commit_update(task_id, data, pending, resolved) ==
    LET tbl == tags \o pending
        ids == [i \in 1..Len(resolved) |-> TagIdByName(tbl, resolved[i])]
        before == TagsOf(task_tags, task_id)
        added == SelectSeq(ids, LAMBDA g : g \notin before)
        removed == before \ Range(ids)
        set == SetColumns(tasks[task_id], data)
        row == IF set # tasks[task_id] THEN [set EXCEPT !.updated_at = now] ELSE set
    IN  IF NotNullOk(row) /\ AssociationInsertOk(added)
        THEN [status |-> 200, id |-> task_id,
              tasks |-> [tasks EXCEPT ![task_id] = row],
              tags |-> tbl,
              task_tags |-> (task_tags \ {<<task_id, g>> : g \in removed})
                               \cup {<<task_id, added[i]>> : i \in 1..Len(added)}]
        ELSE rollback(task_id)

\* A request arrives: the body is validated, a PATCH looks its task up (404),
\* and the handler calls get_or_create_tags with the tag list.
Arrive(r) ==
    /\ txn[r].pc = "idle"
    /\ \/ \E body \in RaceCreateBodies :
            /\ Len(tasks) + Cardinality(Creating) < MaxTasks
            /\ txn' = [txn EXCEPT ![r] =
                         IF ~TaskCreate_valid(body)
                         THEN [Idle EXCEPT !.pc = "done", !.op = "create", !.status = 422]
                         ELSE [Idle EXCEPT !.pc = "select", !.op = "create",
                                           !.body = Some(body),
                                           !.names = Val(TaskCreate(body).tags)]]
       \/ \E body \in RaceUpdateBodies :
            /\ txn' = [txn EXCEPT ![r] =
                         IF ~TaskUpdate_valid(body)
                         THEN [Idle EXCEPT !.pc = "done", !.op = "update", !.task_id = r,
                                           !.status = 422, !.id = r]
                         ELSE IF get_task(r) = 0
                         THEN [Idle EXCEPT !.pc = "done", !.op = "update", !.task_id = r,
                                           !.status = 404, !.id = r]
                         ELSE [Idle EXCEPT !.pc = "select", !.op = "update", !.task_id = r,
                                           !.body = Some(body),
                                           !.names = Val(TaskUpdate(body).tags)]]
    /\ UNCHANGED <<tasks, tags, task_tags, now, resp>>

\* get_or_create_tags, one entry: the blank entry is skipped; otherwise the
\* SELECT by normalized name, and the Tag found is appended.
SelectTag(r) ==
    LET t == txn[r]
        name == normalize(Head(t.names))
        rival(q) == q # r /\ InFlight(q) /\ name \in txn[q].absent
    IN  /\ t.pc = "select"
        /\ txn' = IF name = <<>> THEN [txn EXCEPT ![r] = NextEntry(t)]
                  ELSE IF name \in Visible(r)
                  THEN [txn EXCEPT ![r] = NextEntry([t EXCEPT !.resolved = Append(@, name)])]
                  ELSE [q \in Requests |->
                          IF q = r
                          THEN [t EXCEPT !.pc = "insert", !.absent = @ \cup {name},
                                         !.rivals = IF \E o \in Requests : rival(o)
                                                    THEN @ \cup {name} ELSE @]
                          ELSE IF rival(q) THEN [txn[q] EXCEPT !.rivals = @ \cup {name}]
                          ELSE txn[q]]
        /\ UNCHANGED <<tasks, tags, task_tags, now, resp>>

\* get_or_create_tags, the SELECT found nothing: Tag(name=name), db.add,
\* db.flush().  The INSERT waits while another transaction holds a row of
\* that name; a committed row of that name rejects it, and the exception
\* ends the request.
InsertTag(r) ==
    LET t == txn[r]
        name == normalize(Head(t.names))
    IN  /\ t.pc = "insert"
        /\ \A q \in Requests \ {r} : name \notin Range(txn[q].pending)
        /\ txn' = [txn EXCEPT ![r] =
                     IF name \in Range(tags) THEN Failed(t)
                     ELSE NextEntry([t EXCEPT !.pending = Append(@, name),
                                              !.resolved = Append(@, name)])]
        /\ UNCHANGED <<tasks, tags, task_tags, now, resp>>

\* db.commit() of create_task or update_task, or the rollback when the store
\* rejects the flush.
CommitRequest(r) ==
    LET t == txn[r]
        res == IF t.op = "create"
               THEN commit_create(TaskCreate(Val(t.body)), t.pending, t.resolved)
               ELSE commit_update(t.task_id, TaskUpdate(Val(t.body)), t.pending, t.resolved)
    IN  /\ t.pc = "commit"
        /\ tasks' = res.tasks
        /\ tags' = res.tags
        /\ task_tags' = res.task_tags
        /\ txn' = [txn EXCEPT ![r] =
                     [t EXCEPT !.pc = "done", !.status = res.status, !.id = res.id,
                               !.pending = <<>>]]
        /\ UNCHANGED <<now, resp>>

\* The response is sent and the request is over.
Respond(r) ==
    /\ txn[r].pc = "done"
    /\ txn' = [txn EXCEPT ![r] = Idle]
    /\ UNCHANGED <<tasks, tags, task_tags, now, resp>>

NextRace ==
    \E r \in Requests :
        \/ Arrive(r)
        \/ SelectTag(r)
        \/ InsertTag(r)
        \/ CommitRequest(r)
        \/ Respond(r)

SpecRace == Init /\ [][NextRace]_vars

(***************************************************************************)
(* Properties.                                                             *)
(***************************************************************************)
Ids == 1..Len(tasks)

Deleted == {id \in Ids : tasks[id].deleted}

NamesOf(assoc, tbl, id) == {tbl[g] : g \in TagsOf(assoc, id)}

\* The names a tags=... parameter asks for: its comma-separated pieces,
\* trimmed and lowercased, the blank ones left out.
RequestedNames(csv) ==
    IF csv = None THEN {}
    ELSE LET parts == split(Val(csv), <<>>)
         IN  {lower(strip(parts[i])) : i \in {j \in 1..Len(parts) : strip(parts[j]) # <<>>}}

\* The task satisfies every filter the query states.
Matches(id, q) ==
    /\ ~tasks[id].deleted
    /\ q.completed # None => tasks[id].completed = q.completed
    /\ q.priority # None => tasks[id].priority = q.priority
    /\ RequestedNames(q.tags) # {} => NamesOf(task_tags, tags, id) \cap RequestedNames(q.tags) # {}

CsvSpace == {<<"W", ",", "u">>, <<"x", ",", "u">>, <<" ", ",">>, <<"u", ",", " ", "w">>}

\* The queries the properties range over (all of them pass the Query checks).
QuerySpace ==
    [completed : Opt(BOOLEAN),
     priority : Opt({MaxPriority}),
     tags : Opt(CsvSpace),
     limit : {MinLimit, MaxLimit},
     offset : {0, 1}]

\* C1: a soft-deleted task is never in a GET /tasks page, under any filter
\* and page; GET answers 404; PATCH changes nothing and answers 404 (422 when
\* the body does not pass validation); DELETE answers 404 and changes nothing;
\* and no step changes its row or its tags: the row stays, with deleted = true.
C1_SoftDeletedUnreachable ==
    /\ [](\A id \in Deleted :
            /\ get_task_route(id) = 404
            /\ delete_task_route(id) = Unchanged(404, id)
            /\ \A body \in UpdateBodies :
                  patch_task(id, body) =
                      Unchanged(IF TaskUpdate_valid(body) THEN 404 ELSE 422, id)
            /\ \A q \in QuerySpace : \A r \in list_tasks(q) : id \notin Range(r.tasks))
    /\ [][\A id \in Deleted :
            /\ id \in 1..Len(tasks')
            /\ tasks'[id] = tasks[id]
            /\ TagsOf(task_tags', id) = TagsOf(task_tags, id)]_vars

\* A PATCH has just been answered 404 on a soft-deleted task that carries a
\* tag, while another task is still live.
C1_Witness ==
    /\ resp.op = "update" /\ resp.status = 404
    /\ resp.id \in Deleted
    /\ TagsOf(task_tags, resp.id) # {}
    /\ \E id \in Ids : ~tasks[id].deleted

\* C2: for every combination of the filters completed, priority and tags and
\* every limit and offset, the total of GET /tasks is the number of distinct
\* non-deleted tasks that satisfy all the active filters.
C2_TotalCountsMatches ==
    \A q \in QuerySpace : \A r \in list_tasks(q) :
        /\ r.status = 200
        /\ r.total = Cardinality({id \in Ids : Matches(id, q)})

\* GET /tasks?tags=W,u has just answered while a live task carries both tags
\* and a deleted task carries one of them.
C2_Witness ==
    /\ resp.op = "list" /\ resp.status = 200
    /\ resp.query.tags = Some(<<"W", ",", "u">>)
    /\ \E id \in Ids \ Deleted : Cardinality(TagsOf(task_tags, id)) = 2
    /\ \E id \in Deleted : TagsOf(task_tags, id) # {}

\* C3: with a tag filter naming the set S (and no other filter), GET /tasks
\* answers 200 with non-deleted tasks that carry at least one tag of S, each at
\* most once, and with all of them when the page is large enough; a name of S
\* that no tag row has adds no task.
C3_TagFilterIsUnion ==
    \A q \in {p \in QuerySpace : p.completed = None /\ p.priority = None
                                   /\ RequestedNames(p.tags) # {}} :
        LET S == RequestedNames(q.tags)
            U == {id \in Ids \ Deleted : \E g \in TagsOf(task_tags, id) : tags[g] \in S}
        IN  \A r \in list_tasks(q) :
                /\ r.status = 200
                /\ ~HasDuplicates(r.tasks)
                /\ Range(r.tasks) \subseteq U
                /\ (q.offset = 0 /\ q.limit >= Cardinality(U)) => Range(r.tasks) = U

\* GET /tasks?tags=W,u has just answered the page of two tasks, one of which
\* carries both w and u and the other one of them.
C3_Witness ==
    /\ resp.op = "list" /\ resp.status = 200
    /\ resp.query = Query(None, None, Some(<<"W", ",", "u">>), MaxLimit, 0)
    /\ Len(resp.tasks) = 2
    /\ \E id \in Range(resp.tasks) : Cardinality(TagsOf(task_tags, id)) = 2
    /\ \E id \in Range(resp.tasks) : Cardinality(TagsOf(task_tags, id)) = 1

\* What a create or update request asks of the tags: for every name of its
\* list that is not blank, the task is associated with the row of that name,
\* and that row is the one that already had the name, if any.
TagsResolved(r, names) ==
    /\ \A g \in 1..Len(tags) : g \in 1..Len(r.tags) /\ r.tags[g] = tags[g]
    /\ \A i \in 1..Len(names) :
          LET n == lower(strip(names[i])) IN
          n # <<>> =>
             \E g \in 1..Len(r.tags) :
                /\ r.tags[g] = n
                /\ <<r.id, g>> \in r.task_tags
                /\ \A h \in 1..Len(tags) : tags[h] = n => h = g

\* C4: the tag table holds at most one row per name, every name is non-empty,
\* trimmed and lowercase, and a create or update that succeeds associates the
\* task with the one row of each name it gives, reusing the row another task
\* already references.
C4_TagRowsUnique ==
    /\ \A g, h \in 1..Len(tags) : lower(strip(tags[g])) = lower(strip(tags[h])) => g = h
    /\ \A g \in 1..Len(tags) :
          tags[g] # <<>> /\ strip(tags[g]) = tags[g] /\ lower(tags[g]) = tags[g]
    /\ \A p \in task_tags : p[1] \in Ids /\ p[2] \in 1..Len(tags)
    /\ \A body \in CreateBodies :
          LET r == post_tasks(body) IN
          (r.status = 201 /\ body.tags # None) => TagsResolved(r, Val(body.tags))
    /\ \A id \in Ids, body \in UpdateBodies :
          LET r == patch_task(id, body) IN
          (r.status = 200 /\ "tags" \in body.fields_set /\ body.tags # None)
              => TagsResolved(r, Val(body.tags))

\* Two tasks reference the same tag row, the second one by a create that has
\* just been answered 201, and the table holds two rows.
C4_Witness ==
    /\ resp.op = "create" /\ resp.status = 201 /\ resp.id = 2
    /\ \E g \in 1..Len(tags) : <<1, g>> \in task_tags /\ <<2, g>> \in task_tags
    /\ Len(tags) = 2

\* The step is the handling of a request whose result is r.
StepIs(op, r) ==
    /\ resp' = Response(op, r.status, r.id)
    /\ tasks' = r.tasks
    /\ tags' = r.tags
    /\ task_tags' = r.task_tags

\* The distinct normalized names of a tag list that are not blank.
NonBlankNames(list) ==
    IF list = None THEN {}
    ELSE {lower(strip(n)) : n \in Range(Val(list))} \ {<<>>}

\* C5: every valid POST /tasks creates the task with exactly one association
\* per distinct normalized non-blank name of its tag list: blank entries are
\* dropped and two entries that normalize to the same name yield the tag once.
C5_CreateTagsDeduplicated ==
    [][\A body \in CreateBodies :
          (TaskCreate_valid(body) /\ StepIs("create", post_tasks(body))) =>
              /\ resp'.status = 201
              /\ resp'.id = Len(tasks) + 1
              /\ NamesOf(task_tags', tags', resp'.id) = NonBlankNames(body.tags)
              /\ Cardinality(TagsOf(task_tags', resp'.id))
                    = Cardinality(NonBlankNames(body.tags))]_vars

\* C6: a PATCH answered 200 leaves every column field the body does not name,
\* the tag set when the body does not name tags, and deleted, id and
\* created_at as they were; with no field named the row and the tag set are
\* as they were.
C6_PatchChangesOnlyNamedFields ==
    \A id \in Ids, body \in FieldUpdateBodies :
        LET r == patch_task(id, body) IN
        r.status = 200 =>
            /\ r.id = id /\ Len(r.tasks) = Len(tasks)
            /\ \A f \in ColumnFields \ body.fields_set : r.tasks[id][f] = tasks[id][f]
            /\ "tags" \notin body.fields_set =>
                  /\ TagsOf(r.task_tags, id) = TagsOf(task_tags, id)
                  /\ r.tags = tags
            /\ r.tasks[id].deleted = tasks[id].deleted
            /\ r.tasks[id].created_at = tasks[id].created_at
            /\ body.fields_set \cap UpdateFields = {} =>
                  r.tasks = tasks /\ r.task_tags = task_tags

\* A PATCH has just been answered 200 for a task whose fields all differ from
\* the defaults and whose row was last written before the current tick: the
\* PATCH changed no column.
C6_Witness ==
    /\ resp.op = "update" /\ resp.status = 200 /\ resp.id \in Ids
    /\ LET t == tasks[resp.id] IN
          /\ t.description # None /\ t.due_date # None
          /\ t.priority = Some(MaxPriority) /\ t.completed = Some(TRUE)
          /\ t.title = Some(<<"b">>)
          /\ t.updated_at < now
    /\ TagsOf(task_tags, resp.id) # {}

\* C7: a PATCH whose body names tags leaves the task with exactly the tags
\* resolved from the list (normalized, blanks dropped): every association not
\* in the list is removed, an empty list leaves none, and the tag rows remain.
C7_PatchReplacesTags ==
    [][\A id \in Ids, body \in UpdateBodies :
          (/\ "tags" \in body.fields_set
           /\ TaskUpdate_valid(body)
           /\ get_task(id) # 0
           /\ StepIs("update", patch_task(id, body))) =>
              /\ NamesOf(task_tags', tags', id) = NonBlankNames(body.tags)
              /\ Cardinality(TagsOf(task_tags', id)) = Cardinality(NonBlankNames(body.tags))
              /\ \A g \in 1..Len(tags) : g \in 1..Len(tags') /\ tags'[g] = tags[g]]_vars

\* C8 (as stated): from any state of a task an update can set completed, and
\* can set deleted, to either value.
C8_AnyBooleanAnyTime ==
    \A id \in Ids, v \in BOOLEAN :
        /\ \E body \in FieldUpdateBodies :
              LET r == patch_task(id, body) IN
              r.status = 200 /\ r.tasks[id].completed = Some(v)
        /\ \E body \in FieldUpdateBodies :
              LET r == patch_task(id, body) IN
              r.status = 200 /\ r.tasks[id].deleted = v

\* C8 (amended): while a task is not soft-deleted an update can set completed
\* to either value; no update changes deleted, which only DELETE sets, from
\* false to true and without touching completed; and an update of a
\* soft-deleted task changes nothing.
C8_BooleansByUpdate ==
    \A id \in Ids :
        /\ ~tasks[id].deleted =>
              /\ \A v \in BOOLEAN : \E body \in FieldUpdateBodies :
                    LET r == patch_task(id, body) IN
                    r.status = 200 /\ r.tasks[id].completed = Some(v)
              /\ LET d == delete_task_route(id) IN
                    /\ d.status = 204 /\ d.tasks[id].deleted = TRUE
                    /\ d.tasks[id].completed = tasks[id].completed
        /\ \A body \in FieldUpdateBodies :
              LET r == patch_task(id, body) IN
              /\ r.tasks[id].deleted = tasks[id].deleted
              /\ tasks[id].deleted => (r.status # 200 /\ r.tasks = tasks)

\* A PATCH has just been answered 404 on a soft-deleted task that was marked
\* completed before it was deleted.
C8_Witness ==
    /\ resp.op = "update" /\ resp.status = 404
    /\ resp.id \in Deleted
    /\ tasks[resp.id].completed = Some(TRUE)

\* The row is within the bounds of the Task columns.
RowOk(row) ==
    /\ row.priority # None
    /\ Val(row.priority) >= MinPriority /\ Val(row.priority) <= MaxPriority
    /\ row.title # None
    /\ Len(Val(row.title)) >= MinTitleLen /\ Len(Val(row.title)) <= MaxTitleLen
    /\ strip(Val(row.title)) # <<>>
    /\ row.completed \in {Some(TRUE), Some(FALSE)}
    /\ row.deleted \in BOOLEAN

\* A field the body names is outside these bounds.
ViolatesBounds(body) ==
    \/ "priority" \in body.fields_set /\ (body.priority = None \/ ~PriorityOk(body.priority))
    \/ "title" \in body.fields_set /\ (body.title = None \/ ~TitleOk(body.title))
    \/ "completed" \in body.fields_set /\ body.completed = None

\* The rows in storage are within the bounds.
RowsOk == \A id \in Ids : RowOk(tasks[id])

\* C9: every task row has a priority in 1..5, a non-blank title of 1 to 200
\* characters and boolean flags, and a create or update whose named fields are
\* outside these bounds (a null included) is answered 422 and stores nothing.
C9_BoundsOr422 ==
    /\ []RowsOk
    /\ [][/\ \A body \in FieldCreateBodies :
                (ViolatesBounds(body) /\ StepIs("create", post_tasks(body))) =>
                    resp'.status = 422 /\ UNCHANGED <<tasks, tags, task_tags>>
          /\ \A id \in Ids, body \in FieldUpdateBodies :
                (/\ ViolatesBounds(body)
                 /\ get_task(id) # 0
                 /\ StepIs("update", patch_task(id, body))) =>
                    resp'.status = 422 /\ UNCHANGED <<tasks, tags, task_tags>>]_vars

\* C10 (as stated): a DELETE answered 204 changes nothing but the deleted flag
\* of that task, and no step removes a task row or a tag row.
C10_DeleteChangesOnlyFlag ==
    [][/\ \A id \in Ids :
            (get_task(id) # 0 /\ resp' = Response("delete", 204, id)) =>
                /\ tasks' = [tasks EXCEPT ![id].deleted = TRUE]
                /\ tags' = tags
                /\ task_tags' = task_tags
       /\ Len(tasks') >= Len(tasks)
       /\ \A g \in 1..Len(tags) : g \in 1..Len(tags') /\ tags'[g] = tags[g]]_vars

\* C10 (amended): a DELETE answered 204 changes the deleted flag of that task
\* (false to true) and its updated_at (to the time of the request) and nothing
\* else: not its other fields, its tags, another task or a tag row; and no
\* step removes a task row or a tag row.
C10_DeleteFrame ==
    [][/\ \A id \in Ids :
            (get_task(id) # 0 /\ resp' = Response("delete", 204, id)) =>
                /\ tasks[id].deleted = FALSE
                /\ tasks' = [tasks EXCEPT ![id].deleted = TRUE, ![id].updated_at = now]
                /\ tags' = tags
                /\ task_tags' = task_tags
       /\ Len(tasks') >= Len(tasks)
       /\ \A g \in 1..Len(tags) : g \in 1..Len(tags') /\ tags'[g] = tags[g]]_vars

\* A DELETE has just been answered 204, one tick after the task was created,
\* for a task that carries a tag, while another task carries the same tag.
C10_Witness ==
    /\ resp.op = "delete" /\ resp.status = 204 /\ resp.id \in Deleted
    /\ tasks[resp.id].updated_at > tasks[resp.id].created_at
    /\ TagsOf(task_tags, resp.id) # {}
    /\ \E id \in Ids \ Deleted : TagsOf(task_tags, id) = TagsOf(task_tags, resp.id)

\* The store of a result is the store of the current state.
SameStore(r) == r.tasks = tasks /\ r.tags = tags /\ r.task_tags = task_tags

\* The tag rows get_or_create_tags flushes for the tag list of a body.
FlushedTags(body) ==
    IF "tags" \in body.fields_set /\ body.tags # None
    THEN get_or_create_tags(tags, Val(body.tags)).tags
    ELSE tags

\* C11: a request answered with an error (422, 404, or 500 when the store
\* rejects the flush of a create or an update) leaves the task rows, the tag
\* rows and the associations as they were, also when get_or_create_tags had
\* flushed new tag rows before the failure; and every step that records an
\* error response leaves the store unchanged.
C11_ErrorsLeaveStorageUnchanged ==
    /\ [](/\ \A body \in FieldCreateBodies :
              post_tasks(body).status >= 400 =>
                  post_tasks(body).status \in {422, 500} /\ SameStore(post_tasks(body))
          /\ \A id \in FieldTaskIds, body \in FieldUpdateBodies :
              patch_task(id, body).status >= 400 =>
                  /\ patch_task(id, body).status \in {422, 404, 500}
                  /\ SameStore(patch_task(id, body))
          /\ \A id \in FieldTaskIds :
              delete_task_route(id).status >= 400 =>
                  delete_task_route(id) = Unchanged(404, id))
    /\ [][resp'.status >= 400 => UNCHANGED <<tasks, tags, task_tags>>]_vars

\* A PATCH of a live task has just been answered 500, and in the store it
\* left there is a body that flushes a tag row the table does not have and
\* then fails at the store; a PATCH of a missing id is answered 404 and a
\* PATCH with an invalid body 422.
C11_Witness ==
    /\ resp.op = "update" /\ resp.status = 500 /\ get_task(resp.id) # 0
    /\ \E body \in FieldUpdateBodies :
          /\ patch_task(resp.id, body).status = 500
          /\ FlushedTags(body) # tags
    /\ \E id \in FieldTaskIds, body \in FieldUpdateBodies : patch_task(id, body).status = 404
    /\ \E body \in FieldUpdateBodies : patch_task(resp.id, body).status = 422

\* Requests r and s have both ended, and while both were in flight the SELECT
\* of each did not find a name the SELECT of the other did not find either.
Raced(r, s) ==
    /\ r # s
    /\ txn[r].pc = "done" /\ txn[s].pc = "done"
    /\ txn[r].rivals \cap txn[s].rivals # {}

\* Request r has committed its task with the tag row of that name.
Committed(r, name) ==
    /\ txn[r].status \in {200, 201}
    /\ get_task(txn[r].id) # 0
    /\ name \in Range(tags)
    /\ TagIdByName(tags, name) \in TagsOf(task_tags, txn[r].id)

\* No two tag rows have the same name.
TagNamesUnique == \A g, h \in 1..Len(tags) : tags[g] = tags[h] => g = h

\* The step is the rejection of the INSERT of request r.
InsertRejected(r) ==
    /\ txn[r].pc = "insert"
    /\ txn'[r].pc = "done" /\ txn'[r].status = 500

\* C12: under every interleaving of two requests that resolve the same new
\* tag name, no two tag rows have that name; when both read the name absent,
\* one request is answered 500 and the other has committed its task with the
\* tag row of that name; and the rejection of an INSERT ends the request at
\* once (no second attempt) with the store as it was.
C12_TagRace ==
    /\ [](/\ TagNamesUnique
          /\ \A r, s \in Requests :
                Raced(r, s) =>
                    \A name \in txn[r].rivals \cap txn[s].rivals :
                        \/ txn[r].status = 500 /\ Committed(s, name)
                        \/ txn[s].status = 500 /\ Committed(r, name))
    /\ [][\A r \in Requests :
            InsertRejected(r) =>
                /\ UNCHANGED <<tasks, tags, task_tags>>
                /\ txn'[r].pending = <<>>]_vars

\* The tag list of the request has no two entries of the same normalized name.
DistinctNames(t) ==
    t.body # None =>
        LET list == Val(Val(t.body).tags)
        IN  \A i, j \in 1..Len(list) : normalize(list[i]) = normalize(list[j]) => i = j

\* The race is decided as C12 says whenever neither tag list names a tag
\* twice.
RaceDecided ==
    /\ TagNamesUnique
    /\ \A r, s \in Requests :
          (Raced(r, s) /\ DistinctNames(txn[r]) /\ DistinctNames(txn[s])) =>
              \A name \in txn[r].rivals \cap txn[s].rivals :
                  \/ txn[r].status = 500 /\ Committed(s, name)
                  \/ txn[s].status = 500 /\ Committed(r, name)

\* The filters and page sizes the page properties range over.
PageFilters == [completed : Opt(BOOLEAN), tags : {None, Some(<<"W">>)}]

PageLimits == {MinLimit, MinLimit + 1}

PageQuery(f, limit, offset) == Query(f.completed, None, f.tags, limit, offset)

\* The tasks the filters select.
Matching(f) == {id \in Ids : Matches(id, PageQuery(f, MinLimit, 0))}

Min(a, b) == IF a < b THEN a ELSE b

Max(a, b) == IF a > b THEN a ELSE b

\* Most recent first.
Descending(page) ==
    \A i, j \in 1..Len(page) : i < j => tasks[page[i]].created_at >= tasks[page[j]].created_at

\* Every page holds matching tasks only, most recent first, and has
\* min(limit, max(0, total - offset)) elements.
PagesOrdered ==
    \A f \in PageFilters, limit \in PageLimits, offset \in 0..(MaxTasks + 1) :
        \A r \in list_tasks(PageQuery(f, limit, offset)) :
            /\ r.status = 200
            /\ r.total = Cardinality(Matching(f))
            /\ Range(r.tasks) \subseteq Matching(f)
            /\ Descending(r.tasks)
            /\ Len(r.tasks) = Min(limit, Max(0, r.total - offset))

\* On the store as it is, the pages for the offsets 0, limit, 2 * limit, one
\* after the other, hold every task the filters select exactly once.
PagesCover(f, limit) ==
    \A p0 \in list_tasks(PageQuery(f, limit, 0)),
       p1 \in list_tasks(PageQuery(f, limit, limit)),
       p2 \in list_tasks(PageQuery(f, limit, 2 * limit)) :
        LET all == p0.tasks \o p1.tasks \o p2.tasks
        IN  Range(all) = Matching(f) /\ ~HasDuplicates(all)

\* C13: GET /tasks returns the matching non-deleted tasks most recent first,
\* the page for (limit, offset) has min(limit, max(0, total - offset))
\* elements, and on an unchanged store the pages for the offsets 0, limit,
\* 2 * limit, ... hold every matching task exactly once.
C13_PagesOfOneOrderedList ==
    /\ PagesOrdered
    /\ \A f \in PageFilters, limit \in PageLimits : PagesCover(f, limit)

\* The pages hold every matching task exactly once whenever no two matching
\* tasks have the same created_at.
PagesCoverDistinctTimes ==
    \A f \in PageFilters, limit \in PageLimits :
        (\A a, b \in Matching(f) : tasks[a].created_at = tasks[b].created_at => a = b)
            => PagesCover(f, limit)

====
